---- MODULE Spec2Model ----
(***************************************************************************)
(* State-machine model of the wallet server functions of                   *)
(* bdk-browser-wallet (server/src/api/wallet.rs).                          *)
(*                                                                         *)
(* One request is served at a time on a wallet built for that request      *)
(* (the functions share no state).  A handler is split at its calls, so    *)
(* that the order of the remote calls is visible: pc is the position of    *)
(* the request being served.  The calls into the bdk / esplora libraries   *)
(* (scan, apply_update, commit, get_fee_estimates, finish, sign,           *)
(* broadcast) are modelled at the call site: their Err / Ok outcomes are   *)
(* drawn nondeterministically, their Ok values computed below.             *)
(***************************************************************************)
EXTENDS Integers, Sequences, FiniteSets

VARIABLES
    pc,        \* position of the request being served
    req,       \* arguments of the server function being served
    base_url,  \* url the esplora client of this request was built with
    wallet,    \* the Wallet of this request
    remote,    \* chain state held by the remote indexer
    syncRes,   \* what sync_wallet returned
    hist,      \* wallet state before the latest sync_wallet call
    fee_rate,  \* fee rate of this request, in half sat/vB
    psbt,      \* the PartiallySignedTransaction of this request
    signRes,   \* what wallet.sign returned
    sent,      \* broadcast attempts of this request, in order
    steps,     \* steps of the pipeline issued by this request, in order
    result,    \* how the server function ended
    payload    \* what it returned

vars == <<pc, req, base_url, wallet, remote, syncRes, hist, fee_rate, psbt,
          signRes, sent, steps, result, payload>>

----------------------------------------------------------------------------
(* Bounds *)

\* heights the remote chain tip ranges over: 1 .. MaxTip
MaxTip == 2

----------------------------------------------------------------------------
(* Constants of the source *)

DEFAULT_ESPLORA_BASE_URL_MAINNET == "https://mempool.space/api"
DEFAULT_ESPLORA_BASE_URL_TESTNET == "https://mempool.space/testnet/api"

\* the two mnemonics of test_create_wallet, and one that fails the checksum
Mnemonic12 == "abandon abandon abandon abandon abandon abandon abandon abandon abandon abandon abandon cactus"
Mnemonic24 == "abandon abandon abandon abandon abandon abandon abandon abandon abandon abandon abandon abandon abandon abandon abandon abandon abandon abandon abandon abandon abandon abandon abandon art"
MnemonicBad == "abandon abandon abandon"
Mnemonics == {Mnemonic12, Mnemonic24, MnemonicBad}

NetworkStrings == {"mainnet", "testnet", "signet", "regtest", "bitcoin", "foo"}

\* the two addresses of test_create_signed_transaction, and one that does
\* not parse
AddressA == "tb1prgvu88s0074nqgq8z95uq250lx4pken99yxerwz5mrcjhrzq642s6l247d"
AddressB == "tb1pce9rpv8x32r4y6xe0063kav2rpp8x9yquhvyjnfmzlk3zqn2rvuq5x7c7c"
AddressBad == "not-an-address"
AddressStrings == {AddressA, AddressB, AddressBad}

AddressTypeStrings == {"receive", "change", "foo"}
Indexes == {0, 1}

Ops == {"get_utxo", "get_balance", "get_address", "post_send_transaction"}

----------------------------------------------------------------------------
(* The chain: the outputs that may pay the wallet's scripts.  "txA:0" is *)
(* the output of the test fixture: 50 000 sat, confirmed.                *)

Outpoints == {"txA:0", "txB:0", "txC:1"}

Value(o) == CASE o = "txA:0" -> 50000
              [] o = "txB:0" -> 400
              [] o = "txC:1" -> 100

Confirmed(o) == o # "txB:0"

RECURSIVE SumValues(_)
SumValues(S) == IF S = {} THEN 0
                ELSE LET o == CHOOSE x \in S : TRUE
                     IN Value(o) + SumValues(S \ {o})

RemoteStates == [utxos : SUBSET Outpoints, tip : 1..MaxTip]

----------------------------------------------------------------------------
(* create_wallet *)

\* Mnemonic::parse_in(Language::English, mnemonic): wordlist and checksum
ParseMnemonicOk(m) == m \in {Mnemonic12, Mnemonic24}

NetworkOfDefaultMainnet(network) ==
    CASE network = "mainnet" -> "Bitcoin"
      [] network = "testnet" -> "Testnet"
      [] network = "signet"  -> "Signet"
      [] network = "regtest" -> "Regtest"
      [] OTHER               -> "Bitcoin"

\* the match on the network string
NetworkOf(network) ==
    CASE network = "mainnet" -> "Bitcoin"
      [] network = "testnet" -> "Testnet"
      [] network = "signet"  -> "Signet"
      [] network = "regtest" -> "Regtest"
      [] OTHER               -> "Testnet"

NoWallet == [exists |-> FALSE, network |-> "none", utxos |-> {}, checkpoint |-> 0]

\* Wallet::new_no_persist: no transactions, no checkpoint
NewWallet(network) ==
    [exists |-> TRUE, network |-> NetworkOf(network), utxos |-> {}, checkpoint |-> 0]

\* create_wallet(mnemonic, network, DEFAULT_.._EXTERNAL, DEFAULT_.._INTERNAL)
CreateWalletOk(mnemonic) == ParseMnemonicOk(mnemonic)

\* the url the three syncing server functions build their client with
BaseUrl(network) ==
    IF network = "bitcoin" THEN DEFAULT_ESPLORA_BASE_URL_MAINNET
    ELSE DEFAULT_ESPLORA_BASE_URL_TESTNET

----------------------------------------------------------------------------
(* sync_wallet *)

\* what client.scan answers: a client error, an update that does not
\* connect to the local chain, or the remote's view of the wallet's scripts
ScanReplies == {"ok", "fail", "bad"}

CommitAlwaysTrue(old, new) == TRUE

\* wallet.commit(): whether apply_update staged any change
Commit(old, new) == old # new

\* wallet.apply_update(update) on a successful scan
ApplyUpdate(w, rem) == [w EXCEPT !.utxos = rem.utxos, !.checkpoint = rem.tip]

\* sync_wallet(wallet, client): the wallet afterwards and the value returned
SyncWallet(w, rem, reply) ==
    IF reply = "fail" THEN [wallet |-> w, res |-> "Err"]      \* scan(..).await?
    ELSE IF reply = "bad" THEN [wallet |-> w, res |-> "Err"]  \* apply_update(..)?
    ELSE LET new == ApplyUpdate(w, rem)
         IN [wallet |-> new,
             res |-> IF Commit(w, new) THEN "Ok_true" ELSE "Ok_false"]

NoHist == [n |-> 0, utxos |-> {}, checkpoint |-> 0]

----------------------------------------------------------------------------
(* get_fee_estimates *)

\* fee rates the remote may quote for the next block, in half sat/vB
FeeRates == {2, 3}

\* what client.get_fee_estimates() answers: a client error, a map without
\* the key "1", or a map quoting a rate for the key "1"
FeeReplies == {[kind |-> "fail", rate |-> 0], [kind |-> "nokey", rate |-> 0]}
              \cup {[kind |-> "rate", rate |-> r] : r \in FeeRates}

\* get_fee_estimates(client, None).await.unwrap()
FeeEstimateOk(reply) == reply.kind = "rate"

----------------------------------------------------------------------------
(* create_signed_transaction *)

\* Address::from_str(address)
AddressFromStrOk(a) == a \in {AddressA, AddressB}

\* address.script_pubkey(): the witness program of the address
\* (OP_1, push of the 32 bytes the bech32m string encodes)
ScriptPubkey(a) ==
    CASE a = AddressA ->
           "51201a19c39e0f7fab3020071169c02a8ff9aa1b6665290d91b854d8f12b8c40d555"
      [] a = AddressB ->
           "5120c64a30b0e68a875268d97bf51b758a1842731480e5d8494d3b17ed11026a1b38"
      [] OTHER -> "none"

\* weight of a transaction of n taproot key-path inputs and one taproot
\* output, and the virtual size of a weight
TxWeight(n) == 214 + 230 * n
Vbytes(w) == (w + 3) \div 4

\* FeeRate::from_sat_per_vb(fee_rate) applied to a size: rounded up
FeeFor(rate2, vb) == (rate2 * vb + 1) \div 2

\* an output below this value is dust for a taproot script
IsDust(v) == v < 330

SpendableConfirmedOnly(w) == {o \in w.utxos : Confirmed(o)}

\* .drain_wallet(): every output of the wallet is spent
SpendableUtxos(w) == w.utxos

NoPsbt == [exists |-> FALSE, inputs |-> {}, outputs |-> <<>>, fee |-> 0,
           rbf |-> FALSE, finalized |-> FALSE]

\* tx_builder.finish() for drain_wallet + drain_to(script) + fee_rate + rbf
Finish(w, script, rate2) ==
    LET inputs == SpendableUtxos(w)
        total  == SumValues(inputs)
        fee    == FeeFor(rate2, Vbytes(TxWeight(Cardinality(inputs))))
    IN IF inputs = {} \/ total < fee \/ IsDust(total - fee)
       THEN [ok |-> FALSE, psbt |-> NoPsbt]
       ELSE [ok |-> TRUE,
             psbt |-> [exists |-> TRUE, inputs |-> inputs,
                       outputs |-> <<[script |-> script, value |-> total - fee]>>,
                       fee |-> fee, rbf |-> TRUE, finalized |-> FALSE]]

\* what wallet.sign(&mut psbt, SignOptions::default()) returns:
\* Ok(true), Ok(false) or Err
SignOutcomes == {"Ok_true", "Ok_false", "Err"}

----------------------------------------------------------------------------
(* broadcast_signed_transaction *)

NoTx == [exists |-> FALSE, inputs |-> {}, outputs |-> <<>>, witnesses |-> FALSE]

\* psbt.extract_tx()
ExtractTx(p) == [exists |-> TRUE, inputs |-> p.inputs, outputs |-> p.outputs,
                 witnesses |-> p.finalized]

\* what client.broadcast(&tx) answers; a transaction without witnesses is
\* never accepted
BroadcastReplies(tx) == IF tx.witnesses THEN {"accepted", "rejected", "failed"}
                        ELSE {"rejected", "failed"}

BroadcastResultPropagating(reply) == IF reply = "accepted" THEN "Ok" ELSE "Err"

\* let _ = client.broadcast(&tx).await; Ok(tx)
BroadcastResult(reply) == "Ok"

----------------------------------------------------------------------------
(* get_address *)

\* the match on the address type string
AddressTypeOf(s) == CASE s = "receive" -> "Receive"
                      [] s = "change"  -> "Change"
                      [] OTHER         -> "Receive"

\* format!("{:?}", address_info.keychain) for get_address / get_internal_address
KeychainOf(t) == IF t = "Change" THEN "Internal" ELSE "External"

----------------------------------------------------------------------------
(* The server functions, step by step *)

NoReq == [op |-> "none", mnemonic |-> "", network |-> "", address |-> "",
          address_type |-> "", index |-> 0]

\* the arguments each server function takes
Requests ==
    [op : {"get_utxo", "get_balance"}, mnemonic : Mnemonics,
     network : NetworkStrings, address : {""}, address_type : {""}, index : {0}]
    \cup
    [op : {"get_address"}, mnemonic : Mnemonics, network : NetworkStrings,
     address : {""}, address_type : AddressTypeStrings, index : Indexes]
    \cup
    [op : {"post_send_transaction"}, mnemonic : Mnemonics,
     network : NetworkStrings, address : AddressStrings, address_type : {""},
     index : {0}]

NoPayload == [utxos |-> {}, confirmed |-> 0, pending |-> 0, index |-> 0,
              keychain |-> "", tx |-> NoTx]

NoResult == [kind |-> "none", at |-> "none"]
Panic(where) == [kind |-> "panic", at |-> where]
Err(where) == [kind |-> "Err", at |-> where]
Ok(where) == [kind |-> "Ok", at |-> where]

StepAfterBroadcastBeforeSign(op, step) ==
    IF op = "get_address"
    THEN CASE step = "start"   -> "wallet"
           [] step = "wallet"  -> "address"
           [] step = "address" -> "serialize"
           [] OTHER            -> "done"
    ELSE IF op \in {"get_utxo", "get_balance"}
    THEN CASE step = "start"  -> "client"
           [] step = "client" -> "wallet"
           [] step = "wallet" -> "sync"
           [] step = "sync"   -> "read"
           [] step = "read"   -> "serialize"
           [] OTHER           -> "done"
    ELSE CASE step = "start"     -> "client"
           [] step = "client"    -> "wallet"
           [] step = "wallet"    -> "sync"
           [] step = "sync"      -> "fee"
           [] step = "fee"       -> "parse"
           [] step = "parse"     -> "build"
           [] step = "build"     -> "broadcast"
           [] step = "broadcast" -> "sign"
           [] step = "sign"      -> "serialize"
           [] OTHER              -> "done"

\* the statement that follows `step` in the body of server function op,
\* when `step` neither returns nor panics
StepAfter(op, step) ==
    IF op = "get_address"
    THEN CASE step = "start"   -> "wallet"
           [] step = "wallet"  -> "address"
           [] step = "address" -> "serialize"
           [] OTHER            -> "done"
    ELSE IF op \in {"get_utxo", "get_balance"}
    THEN CASE step = "start"  -> "client"
           [] step = "client" -> "wallet"
           [] step = "wallet" -> "sync"
           [] step = "sync"   -> "read"
           [] step = "read"   -> "serialize"
           [] OTHER           -> "done"
    ELSE CASE step = "start"     -> "client"
           [] step = "client"    -> "wallet"
           [] step = "wallet"    -> "sync"
           [] step = "sync"      -> "fee"
           [] step = "fee"       -> "parse"
           [] step = "parse"     -> "build"
           [] step = "build"     -> "sign"
           [] step = "sign"      -> "broadcast"
           [] step = "broadcast" -> "serialize"
           [] OTHER              -> "done"

Init ==
    /\ pc = "idle"
    /\ req = NoReq
    /\ base_url = "none"
    /\ wallet = NoWallet
    /\ remote \in RemoteStates
    /\ syncRes = "none"
    /\ hist = NoHist
    /\ fee_rate = 0
    /\ psbt = NoPsbt
    /\ signRes = "none"
    /\ sent = <<>>
    /\ steps = <<>>
    /\ result = NoResult
    /\ payload = NoPayload

\* a server function is called
Request ==
    /\ pc = "idle"
    /\ \E r \in Requests :
         /\ req' = r
         /\ pc' = StepAfter(r.op, "start")
    /\ UNCHANGED <<base_url, wallet, remote, syncRes, hist, fee_rate, psbt,
                   signRes, sent, steps, result, payload>>

\* the server function has returned or panicked: its client, wallet and
\* transaction are dropped, nothing of the request is kept
Return ==
    /\ pc = "done"
    /\ pc' = "idle"
    /\ req' = NoReq
    /\ base_url' = "none"
    /\ wallet' = NoWallet
    /\ syncRes' = "none"
    /\ hist' = NoHist
    /\ fee_rate' = 0
    /\ psbt' = NoPsbt
    /\ signRes' = "none"
    /\ sent' = <<>>
    /\ steps' = <<>>
    /\ result' = NoResult
    /\ payload' = NoPayload
    /\ UNCHANGED remote

\* the chain moves on between requests: outputs appear or are spent, and
\* the tip may rise
ChainAdvance ==
    /\ \E r \in RemoteStates :
         /\ r # remote
         /\ r.tip >= remote.tip
         /\ remote' = r
    /\ hist' = [hist EXCEPT !.n = 0]
    /\ UNCHANGED <<pc, req, base_url, wallet, syncRes, fee_rate, psbt, signRes,
                   sent, steps, result, payload>>

IdleChainAdvance ==
    /\ pc = "idle"
    /\ ChainAdvance

\* Builder::new(base_url).build_async()?
BuildClient ==
    /\ pc = "client"
    /\ base_url' = BaseUrl(req.network)
    /\ \E ok \in BOOLEAN :
         IF ok THEN /\ pc' = StepAfter(req.op, "client")
                    /\ UNCHANGED result
         ELSE /\ pc' = "done"
              /\ result' = Err("build_async")
    /\ UNCHANGED <<req, wallet, remote, syncRes, hist, fee_rate, psbt, signRes,
                   sent, steps, payload>>

\* create_wallet(..).unwrap()
CreateWallet ==
    /\ pc = "wallet"
    /\ steps' = Append(steps, "create_wallet")
    /\ IF CreateWalletOk(req.mnemonic)
       THEN /\ wallet' = NewWallet(req.network)
            /\ pc' = StepAfter(req.op, "wallet")
            /\ UNCHANGED result
       ELSE /\ pc' = "done"
            /\ result' = Panic("create_wallet.unwrap")
            /\ UNCHANGED wallet
    /\ UNCHANGED <<req, base_url, remote, syncRes, hist, fee_rate, psbt,
                   signRes, sent, payload>>

\* one call of sync_wallet on the wallet, against the remote as it is
SyncCall ==
    \E reply \in ScanReplies :
      LET r == SyncWallet(wallet, remote, reply)
      IN /\ wallet' = r.wallet
         /\ syncRes' = r.res
         /\ hist' = [n |-> IF r.res = "Err" THEN 0
                           ELSE IF hist.n = 0 THEN 1 ELSE 2,
                     utxos |-> wallet.utxos,
                     checkpoint |-> wallet.checkpoint]

\* let _ = sync_wallet(&mut wallet, &esplora_client).await;
Sync ==
    /\ pc = "sync"
    /\ req.op # "none"
    /\ SyncCall
    /\ steps' = Append(steps, "scan")
    /\ pc' = StepAfter(req.op, "sync")
    /\ UNCHANGED <<req, base_url, remote, fee_rate, psbt, signRes, sent,
                   result, payload>>

\* wallet.list_unspent() / wallet.get_balance()
ReadState ==
    /\ pc = "read"
    /\ payload' =
         IF req.op = "get_utxo"
         THEN [payload EXCEPT !.utxos = wallet.utxos]
         ELSE [payload EXCEPT
                 !.confirmed = SumValues({o \in wallet.utxos : Confirmed(o)}),
                 !.pending = SumValues({o \in wallet.utxos : ~Confirmed(o)})]
    /\ pc' = StepAfter(req.op, "read")
    /\ UNCHANGED <<req, base_url, wallet, remote, syncRes, hist, fee_rate,
                   psbt, signRes, sent, steps, result>>

\* wallet.get_address(Peek(index)) / wallet.get_internal_address(Peek(index));
\* `index as u32` changes no index below 2^32, and Indexes holds no other
GetAddress ==
    /\ pc = "address"
    /\ payload' = [payload EXCEPT
                     !.index = req.index,
                     !.keychain = KeychainOf(AddressTypeOf(req.address_type))]
    /\ pc' = StepAfter(req.op, "address")
    /\ UNCHANGED <<req, base_url, wallet, remote, syncRes, hist, fee_rate,
                   psbt, signRes, sent, steps, result>>

\* let fee_rate = get_fee_estimates(client, None).await.unwrap();
FeeEstimate ==
    /\ pc = "fee"
    /\ steps' = Append(steps, "fee")
    /\ \E reply \in FeeReplies :
         IF FeeEstimateOk(reply)
         THEN /\ fee_rate' = reply.rate
              /\ pc' = StepAfter(req.op, "fee")
              /\ UNCHANGED result
         ELSE /\ pc' = "done"
              /\ result' = Panic("get_fee_estimates.unwrap")
              /\ UNCHANGED fee_rate
    /\ UNCHANGED <<req, base_url, wallet, remote, syncRes, hist, psbt, signRes,
                   sent, payload>>

\* let address = Address::from_str(address)?; the caller unwraps the Err
ParseAddress ==
    /\ pc = "parse"
    /\ IF AddressFromStrOk(req.address)
       THEN /\ pc' = StepAfter(req.op, "parse")
            /\ UNCHANGED result
       ELSE /\ pc' = "done"
            /\ result' = Panic("create_signed_transaction.unwrap")
    /\ UNCHANGED <<req, base_url, wallet, remote, syncRes, hist, fee_rate,
                   psbt, signRes, sent, steps, payload>>

\* tx_builder.finish(), Err => panic!("Error creating transaction")
BuildTx ==
    /\ pc = "build"
    /\ steps' = Append(steps, "build")
    /\ LET f == Finish(wallet, ScriptPubkey(req.address), fee_rate)
       IN IF f.ok
          THEN /\ psbt' = f.psbt
               /\ pc' = StepAfter(req.op, "build")
               /\ UNCHANGED result
          ELSE /\ pc' = "done"
               /\ result' = Panic("Error creating transaction")
               /\ UNCHANGED psbt
    /\ UNCHANGED <<req, base_url, wallet, remote, syncRes, hist, fee_rate,
                   signRes, sent, payload>>

\* wallet.sign(&mut psbt, SignOptions::default()),
\* Err => panic!("Error signing transaction"); Ok(finalized) is dropped
SignTx ==
    /\ pc = "sign"
    /\ steps' = Append(steps, "sign")
    /\ \E outcome \in SignOutcomes :
         /\ signRes' = outcome
         /\ IF outcome = "Err"
            THEN /\ pc' = "done"
                 /\ result' = Panic("Error signing transaction")
                 /\ UNCHANGED psbt
            ELSE /\ psbt' = [psbt EXCEPT !.finalized = (outcome = "Ok_true")]
                 /\ pc' = StepAfter(req.op, "sign")
                 /\ UNCHANGED result
    /\ UNCHANGED <<req, base_url, wallet, remote, syncRes, hist, fee_rate,
                   sent, payload>>

\* broadcast_signed_transaction(psbt, &esplora_client).await.unwrap()
Broadcast ==
    /\ pc = "broadcast"
    /\ steps' = Append(steps, "broadcast")
    /\ LET tx == ExtractTx(psbt)
       IN \E reply \in BroadcastReplies(tx) :
            /\ sent' = Append(sent, [tx |-> tx, reply |-> reply])
            /\ remote' = IF reply = "accepted"
                         THEN [remote EXCEPT !.utxos = @ \ tx.inputs]
                         ELSE remote
            /\ IF BroadcastResult(reply) = "Ok"
               THEN /\ payload' = [payload EXCEPT !.tx = tx]
                    /\ pc' = StepAfter(req.op, "broadcast")
                    /\ UNCHANGED result
               ELSE /\ pc' = "done"
                    /\ result' = Panic("broadcast_signed_transaction.unwrap")
                    /\ UNCHANGED payload
    /\ UNCHANGED <<req, base_url, wallet, syncRes, hist, fee_rate, psbt,
                   signRes>>

\* let json = to_string(&..)?; Ok(json)
Serialize ==
    /\ pc = "serialize"
    /\ pc' = "done"
    /\ \E ok \in BOOLEAN :
         result' = IF ok THEN Ok(req.op) ELSE Err("to_string")
    /\ UNCHANGED <<req, base_url, wallet, remote, syncRes, hist, fee_rate,
                   psbt, signRes, sent, steps, payload>>

Next ==
    \/ Request
    \/ IdleChainAdvance
    \/ BuildClient
    \/ CreateWallet
    \/ Sync
    \/ ReadState
    \/ GetAddress
    \/ FeeEstimate
    \/ ParseAddress
    \/ BuildTx
    \/ SignTx
    \/ Broadcast
    \/ Serialize
    \/ Return

Spec == Init /\ [][Next]_vars

----------------------------------------------------------------------------
(* sync_wallet called again and again on one wallet *)

InitSync ==
    /\ pc = "sync"
    /\ req = NoReq
    /\ base_url = "none"
    /\ \E n \in NetworkStrings : wallet = NewWallet(n)
    /\ remote \in RemoteStates
    /\ syncRes = "none"
    /\ hist = NoHist
    /\ fee_rate = 0
    /\ psbt = NoPsbt
    /\ signRes = "none"
    /\ sent = <<>>
    /\ steps = <<>>
    /\ result = NoResult
    /\ payload = NoPayload

SyncAgain ==
    /\ pc = "sync"
    /\ req.op = "none"
    /\ SyncCall
    /\ UNCHANGED <<pc, req, base_url, remote, fee_rate, psbt, signRes, sent,
                   steps, result, payload>>

NextSync ==
    \/ SyncAgain
    \/ ChainAdvance

SpecSync == InitSync /\ [][NextSync]_vars

----------------------------------------------------------------------------
(* Properties *)

Send == "post_send_transaction"

\* create_signed_transaction returned Ok(psbt): wallet.sign returned Ok
CreateSignedTransactionReturnedOk == signRes \in {"Ok_true", "Ok_false"}

\* C1: when sync_wallet returns an error in post_send_transaction, no
\* transaction is built, signed or broadcast, and the server function
\* returns an error.
C1_SendFailsHardOnSyncError ==
    (req.op = Send /\ syncRes = "Err") =>
        /\ ~psbt.exists
        /\ signRes = "none"
        /\ sent = <<>>
        /\ pc = "done" => result.kind = "Err"

\* C2: create_signed_transaction returns Ok(psbt) only when every input was
\* signed and finalized, and nothing that is not finalized is handed to
\* broadcast.
C2_SigningAllOrNothing ==
    /\ CreateSignedTransactionReturnedOk => psbt.finalized
    /\ \A i \in 1..Len(sent) : sent[i].tx.witnesses

BuildFailed == req.op = Send /\ pc = "done" /\ ~psbt.exists
               /\ Len(steps) > 0 /\ steps[Len(steps)] = "build"

\* C4: when the drain transaction cannot be built, on a wallet without
\* outputs or with less than dust plus fee, the server function returns an
\* error value (NoSpendableOutputs, InsufficientFunds) and nothing is signed
\* or broadcast.
C4_InsufficientFundsIsAnError ==
    BuildFailed =>
        /\ result = Err(IF wallet.utxos = {} THEN "NoSpendableOutputs"
                        ELSE "InsufficientFunds")
        /\ signRes = "none"
        /\ sent = <<>>

\* C5: every server function ends in a success payload or an error value;
\* with a mnemonic that fails validation it ends in an error value.
C5_EveryOperationReturns ==
    pc = "done" =>
        /\ result.kind \in {"Ok", "Err"}
        /\ ~ParseMnemonicOk(req.mnemonic) => result.kind = "Err"

\* C6: with a valid mnemonic create_wallet succeeds, and the wallet is on
\* main, test, signet, regtest for "mainnet", "testnet", "signet", "regtest"
\* and on test for every other network string.
C6_NetworkSelection ==
    (Len(steps) > 0 /\ ParseMnemonicOk(req.mnemonic)) =>
        /\ wallet.exists
        /\ req.network = "mainnet" => wallet.network = "Bitcoin"
        /\ req.network = "testnet" => wallet.network = "Testnet"
        /\ req.network = "signet" => wallet.network = "Signet"
        /\ req.network = "regtest" => wallet.network = "Regtest"
        /\ req.network \notin {"mainnet", "testnet", "signet", "regtest"}
             => wallet.network = "Testnet"

\* C6 witness: create_wallet was called with an unrecognised network string
C6_Witness ==
    /\ steps = <<"create_wallet">>
    /\ req.network = "foo"
    /\ wallet.exists

C8_BroadcastAlwaysOk ==
    sent # <<>> =>
        /\ Len(sent) = 1
        /\ sent[1].tx = ExtractTx(psbt)
        /\ payload.tx = sent[1].tx
        /\ result.kind # "panic"

\* C8 witness: the remote call failed and the transaction was returned
C8_Witness ==
    /\ sent # <<>>
    /\ sent[1].reply = "failed"
    /\ payload.tx.exists
    /\ result.kind = "Ok"

\* C9: the client is built for the mainnet endpoint exactly when the wallet
\* create_wallet builds from the same network string is on mainnet.
C9_EndpointMatchesWalletNetwork ==
    (base_url # "none" /\ wallet.exists) =>
        (base_url = DEFAULT_ESPLORA_BASE_URL_MAINNET
            <=> wallet.network = "Bitcoin")

PipelineOrder == <<"create_wallet", "scan", "fee", "build", "sign", "broadcast">>

====
